---- MODULE Spec2Model ----
(***************************************************************************)
(* Model of plastic_app/app.py: the effective-root resolver, the import    *)
(* extractor, the two-pass dependency graph builder, the reverse search    *)
(* index of upload_project and the two numbered report generators.         *)
(*                                                                         *)
(* A path is a sequence of entry names relative to the session directory   *)
(* (<<>> is the session directory itself).  A node identifier "a/b/c" is   *)
(* the sequence <<"a","b","c">>; an import name "os" is <<"os">>, so an     *)
(* import name and a one-segment identifier are the same node, as in the   *)
(* string namespace of the code.  A dotted ordinal "2.1.3." is <<2,1,3>>.  *)
(***************************************************************************)
EXTENDS Integers, Sequences, FiniteSets, TLC

VARIABLES fs, scanRev, pc, caller, root, G, todo, outcome, effRoot,
          search_map, fs_graph, flatOut, jsonOut

vars == <<fs, scanRev, pc, caller, root, G, todo, outcome, effRoot,
          search_map, fs_graph, flatOut, jsonOut>>

(* ---------------------------- bounds ----------------------------------- *)
\* the most entries a session directory holds
MaxEntries == 3

(* ------------------------ names and strings ---------------------------- *)
SessionName == "sess"
DirNames == {"proj", "pkg.py", ".git", "__pycache__", "__MACOSX"}
FileNames == {"a.py", ".h.py", "os"}
Names == DirNames \cup FileNames

\* item.startswith('.')
StartsWithDot(n) == n \in {".git", ".h.py"}

\* filename.endswith('.py')
EndsWithPy(n) == n \in {"a.py", ".h.py", "pkg.py"}

\* code-point order of Python's str comparison, used by sorted()
StrRank(n) ==
  CASE n = ".git" -> 1
    [] n = ".h.py" -> 2
    [] n = "__MACOSX" -> 3
    [] n = "__pycache__" -> 4
    [] n = "a.py" -> 5
    [] n = "os" -> 6
    [] n = "pkg.py" -> 7
    [] n = "proj" -> 8
    [] n = "sess" -> 9

RECURSIVE sorted(_)
sorted(S) ==
  IF S = {} THEN <<>>
  ELSE LET m == CHOOSE x \in S : \A y \in S : StrRank(x) <= StrRank(y)
       IN <<m>> \o sorted(S \ {m})

Reverse(s) == [i \in 1..Len(s) |-> s[Len(s) + 1 - i]]

Front(s) == SubSeq(s, 1, Len(s) - 1)
Last(s) == s[Len(s)]

RECURSIVE Concat(_)
Concat(ss) == IF ss = <<>> THEN <<>> ELSE Head(ss) \o Concat(Tail(ss))

Range(s) == {s[i] : i \in 1..Len(s)}

(* --------------------------- file contents ----------------------------- *)
\* a file that ast.parse rejects (or that cannot be read or decoded)
BAD == <<[kind |-> "syntax_error", module |-> <<>>, names |-> <<>>]>>

\* import os.path
SrcOs == <<[kind |-> "import", module |-> <<>>, names |-> << <<"os", "path">> >>]>>

\* from proj.util import x ; import os, os.path ; from . import y
SrcBoth ==
  <<[kind |-> "from", module |-> <<"proj", "util">>, names |-> <<>>],
    [kind |-> "import", module |-> <<>>, names |-> << <<"os">>, <<"os", "path">> >>],
    [kind |-> "from", module |-> <<>>, names |-> <<>>]>>

Contents == {BAD, SrcOs, SrcBoth}

(* ----------------------------- file system ----------------------------- *)
IsDirEntry(p) == Last(p) \in DirNames

PyFilesOf(t) == {p \in t : EndsWithPy(Last(p)) /\ ~IsDirEntry(p)}

Ext(t) ==
  {p \o <<n>> : p \in {q \in t : IsDirEntry(q)} \cup {<<>>},
                n \in Names} \ t

RECURSIVE TreesUpTo(_)
TreesUpTo(k) ==
  IF k = 0 THEN {{}}
  ELSE LET prev == TreesUpTo(k - 1)
       IN prev \cup UNION {{t \cup {e} : e \in Ext(t)} : t \in prev}

FsStates ==
  {[exists |-> FALSE, entries |-> {}, content |-> <<>>]} \cup
  UNION {{[exists |-> TRUE, entries |-> t, content |-> c] :
            c \in [PyFilesOf(t) -> Contents]} : t \in TreesUpTo(MaxEntries)}

\* os.path.exists / os.path.isdir
Exists(p) == fs.exists /\ (p = <<>> \/ p \in fs.entries)
isdir(p) == Exists(p) /\ (p = <<>> \/ IsDirEntry(p))

\* os.listdir(p) / os.scandir(p): the entry names, in the order the
\* file system hands them out
listdir(p) ==
  LET s == sorted({n \in Names : p \o <<n>> \in fs.entries})
  IN IF scanRev THEN Reverse(s) ELSE s

\* os.path.basename(root_path)
basename(p) == IF p = <<>> THEN SessionName ELSE Last(p)

(* ------------------------- _get_effective_root ------------------------- *)
\* as visible_items, but with the noise test of the graph walk
visible_items_walk(p) ==
  SelectSeq(listdir(p), LAMBDA item : ~StartsWithDot(item) /\ item # "__pycache__")

\* line 24: the entries _get_effective_root counts
visible_items(p) ==
  SelectSeq(listdir(p), LAMBDA item : ~StartsWithDot(item) /\ item # "__MACOSX")

RECURSIVE _get_effective_root(_)
_get_effective_root(base_path) ==
  LET v == visible_items(base_path)
  IN IF Len(v) = 1 /\ isdir(base_path \o <<v[1]>>)
     THEN _get_effective_root(base_path \o <<v[1]>>)
     ELSE base_path

(* ------------------------- get_imports_for_file ------------------------ *)
\* open() + ast.parse(): fails on a missing file, a directory, or a file
\* whose text is not valid source
ParseOk(p) ==
  /\ Exists(p) /\ ~isdir(p)
  /\ p \in DOMAIN fs.content
  /\ \A i \in 1..Len(fs.content[p]) : fs.content[p][i].kind # "syntax_error"

\* the names collected from one statement (lines 40-43)
StmtImports(st) ==
  IF st.kind = "import" THEN {Head(st.names[i]) : i \in 1..Len(st.names)}
  ELSE IF st.kind = "from" /\ st.module # <<>> THEN {Head(st.module)}
  ELSE {}

\* as get_imports_for_file, but without the except clause
get_imports_for_file_raising(p) ==
  IF ParseOk(p)
  THEN [raised |-> FALSE,
        imports |-> sorted(UNION {StmtImports(fs.content[p][i]) :
                                    i \in 1..Len(fs.content[p])})]
  ELSE [raised |-> TRUE, imports |-> <<>>]

\* lines 34-46
get_imports_for_file(p) ==
  IF ParseOk(p)
  THEN [raised |-> FALSE,
        imports |-> sorted(UNION {StmtImports(fs.content[p][i]) :
                                    i \in 1..Len(fs.content[p])})]
  ELSE [raised |-> FALSE, imports |-> <<>>]

(* ------------------------------- graph --------------------------------- *)
\* nx.DiGraph(): nodes in insertion order, one attribute, ordered adjacency
NoType == "none"
EmptyGraph == [nodes |-> <<>>, type |-> <<>>, adj |-> <<>>]

has_node(g, n) == n \in Range(g.nodes)

\* as add_node, but an existing node keeps its attribute
add_node_keep(g, n, t) ==
  IF has_node(g, n)
  THEN g
  ELSE [nodes |-> Append(g.nodes, n),
        type |-> (n :> t) @@ g.type,
        adj |-> (n :> <<>>) @@ g.adj]

add_node(g, n, t) ==
  IF has_node(g, n)
  THEN [g EXCEPT !.type[n] = t]
  ELSE [nodes |-> Append(g.nodes, n),
        type |-> (n :> t) @@ g.type,
        adj |-> (n :> <<>>) @@ g.adj]

EnsureNode(g, n) == IF has_node(g, n) THEN g ELSE add_node(g, n, NoType)

add_edge(g, u, v) ==
  LET g2 == EnsureNode(EnsureNode(g, u), v)
  IN IF v \in Range(g2.adj[u]) THEN g2
     ELSE [g2 EXCEPT !.adj[u] = Append(@, v)]

\* G.edges(): every (u, v), by node order then adjacency order
Edges(g) ==
  Concat([i \in 1..Len(g.nodes) |->
            [j \in 1..Len(g.adj[g.nodes[i]]) |->
               <<g.nodes[i], g.adj[g.nodes[i]][j]>>]])

(* ------------------------ build_full_dependency_graph ------------------ *)
\* lines 53 and 64: the directories the walk keeps and descends into
KeepDir(d) == ~StartsWithDot(d) /\ d # "__pycache__"

\* os.walk(root_path), top-down, with dirnames already pruned by the loop
\* body; a top that cannot be listed yields nothing (onerror is None)
RECURSIVE walk(_)
walk(top) ==
  IF ~isdir(top) THEN <<>>
  ELSE LET names == listdir(top)
           dirnames == SelectSeq(names, LAMBDA n : isdir(top \o <<n>>) /\ KeepDir(n))
           filenames == SelectSeq(names, LAMBDA n : ~isdir(top \o <<n>>))
       IN <<[dirpath |-> top, dirnames |-> dirnames, filenames |-> filenames]>>
          \o Concat([i \in 1..Len(dirnames) |-> walk(top \o <<dirnames[i]>>)])

\* as ParentNodeId, but the relative directory path is dropped
ParentNodeId_flat(root_path, dirpath) == <<basename(root_path)>>

\* lines 54-55 and 65-66: the identifier of the directory being visited
ParentNodeId(root_path, dirpath) ==
  <<basename(root_path)>> \o SubSeq(dirpath, Len(root_path) + 1, Len(dirpath))

\* line 61
NodeType(filename) == IF EndsWithPy(filename) THEN "python_file" ELSE "other_file"

\* lines 56-62 for one directory of the walk
Pass1Dir(root_path, w) ==
  LET parent == ParentNodeId(root_path, w.dirpath)
  IN [i \in 1..Len(w.dirnames) |->
        [op |-> "add_node", u |-> parent \o <<w.dirnames[i]>>,
         v |-> <<>>, type |-> "folder"]]
     \o
     [i \in 1..Len(w.filenames) |->
        [op |-> "add_node", u |-> parent \o <<w.filenames[i]>>,
         v |-> <<>>, type |-> NodeType(w.filenames[i])]]

\* lines 52-62: the add_node calls of the first walk, in order
Pass1Ops(root_path) ==
  LET ws == walk(root_path)
  IN Concat([k \in 1..Len(ws) |-> Pass1Dir(root_path, ws[k])])

\* lines 70-78 for one file
Pass2File(parent, dirpath, filename) ==
  LET file_node_id == parent \o <<filename>>
      r == get_imports_for_file(dirpath \o <<filename>>)
  IN <<[op |-> "add_edge", u |-> parent, v |-> file_node_id, type |-> NoType]>>
     \o
     (IF ~EndsWithPy(filename) THEN <<>>
      ELSE IF r.raised
      THEN <<[op |-> "raise", u |-> file_node_id, v |-> <<>>, type |-> NoType]>>
      ELSE [i \in 1..Len(r.imports) |->
              [op |-> "add_dependency", u |-> file_node_id,
               v |-> <<r.imports[i]>>, type |-> "dependency"]])

\* lines 67-78 for one directory of the walk
Pass2Dir(root_path, w) ==
  LET parent == ParentNodeId(root_path, w.dirpath)
  IN [i \in 1..Len(w.dirnames) |->
        [op |-> "add_edge", u |-> parent, v |-> parent \o <<w.dirnames[i]>>,
         type |-> NoType]]
     \o
     Concat([i \in 1..Len(w.filenames) |->
               Pass2File(parent, w.dirpath, w.filenames[i])])

\* lines 63-78: the calls of the second walk, in order
Pass2Ops(root_path) ==
  LET ws == walk(root_path)
  IN Concat([k \in 1..Len(ws) |-> Pass2Dir(root_path, ws[k])])

(* ------------------------------- states -------------------------------- *)
NoPath == <<"-">>
NoReport == [status |-> 0, body |-> <<>>]

\* the root paths build_full_dependency_graph is called with directly
RootPaths == {<<>>, <<"proj">>}

Init ==
  /\ fs \in FsStates
  /\ scanRev \in BOOLEAN
  /\ pc = "idle"
  /\ caller = "none"
  /\ root = NoPath
  /\ G = EmptyGraph
  /\ todo = <<>>
  /\ outcome = "none"
  /\ effRoot = NoPath
  /\ search_map = <<>>
  /\ fs_graph = EmptyGraph
  /\ flatOut = NoReport
  /\ jsonOut = NoReport

\* lines 49-51, entered from a caller with root_path
StartBuild(root_path, who) ==
  /\ root' = root_path
  /\ caller' = who
  /\ G' = add_node(EmptyGraph, <<basename(root_path)>>, "folder")
  /\ todo' = Pass1Ops(root_path)
  /\ pc' = "pass1"

\* BuildFullGraph(rootPath) called on any path, present or not
CallBuild ==
  /\ pc = "idle"
  /\ \E rp \in RootPaths : StartBuild(rp, "direct")
  /\ UNCHANGED <<fs, scanRev, outcome, effRoot, search_map, fs_graph, flatOut, jsonOut>>

\* upload_project, lines 179-180 (the session directory was created and
\* filled by the handler itself)
UploadStart ==
  /\ pc = "idle"
  /\ fs.exists
  /\ effRoot' = _get_effective_root(<<>>)
  /\ StartBuild(effRoot', "upload")
  /\ UNCHANGED <<fs, scanRev, outcome, search_map, fs_graph, flatOut, jsonOut>>

\* lines 58 and 62: one G.add_node of the first walk
Pass1AddNode ==
  /\ pc = "pass1"
  /\ todo # <<>>
  /\ G' = add_node(G, Head(todo).u, Head(todo).type)
  /\ todo' = Tail(todo)
  /\ UNCHANGED <<fs, scanRev, pc, caller, root, outcome, effRoot, search_map,
                 fs_graph, flatOut, jsonOut>>

\* line 63: the first walk is exhausted, the second begins
Pass1Done ==
  /\ pc = "pass1"
  /\ todo = <<>>
  /\ todo' = Pass2Ops(root)
  /\ pc' = "pass2"
  /\ UNCHANGED <<fs, scanRev, caller, root, G, outcome, effRoot, search_map,
                 fs_graph, flatOut, jsonOut>>

\* lines 69 and 72: one containment edge
Pass2AddEdge ==
  /\ pc = "pass2"
  /\ todo # <<>>
  /\ Head(todo).op = "add_edge"
  /\ G' = add_edge(G, Head(todo).u, Head(todo).v)
  /\ todo' = Tail(todo)
  /\ UNCHANGED <<fs, scanRev, pc, caller, root, outcome, effRoot, search_map,
                 fs_graph, flatOut, jsonOut>>

\* lines 77-78: one import of one file
Pass2AddDependency ==
  /\ pc = "pass2"
  /\ todo # <<>>
  /\ Head(todo).op = "add_dependency"
  /\ G' = add_edge(add_node(G, Head(todo).v, "dependency"), Head(todo).u, Head(todo).v)
  /\ todo' = Tail(todo)
  /\ UNCHANGED <<fs, scanRev, pc, caller, root, outcome, effRoot, search_map,
                 fs_graph, flatOut, jsonOut>>

\* line 79, or an exception leaving the function
BuildReturn ==
  /\ pc = "pass2"
  /\ IF todo = <<>> THEN TRUE ELSE Head(todo).op = "raise"
  /\ outcome' = IF todo = <<>> THEN "graph" ELSE "error"
  /\ pc' = "returned"
  /\ UNCHANGED <<fs, scanRev, caller, root, G, todo, effRoot, search_map,
                 fs_graph, flatOut, jsonOut>>

(* ------------------------- upload_project views ------------------------ *)
\* lines 182-188: the graph without its dependency nodes
RECURSIVE CopyNodes(_, _, _)
CopyNodes(full, ns, g) ==
  IF ns = <<>> THEN g
  ELSE CopyNodes(full, Tail(ns),
                 IF full.type[Head(ns)] # "dependency"
                 THEN add_node(g, Head(ns), full.type[Head(ns)]) ELSE g)

RECURSIVE CopyEdges(_, _)
CopyEdges(es, g) ==
  IF es = <<>> THEN g
  ELSE CopyEdges(Tail(es),
                 IF has_node(g, Head(es)[1]) /\ has_node(g, Head(es)[2])
                 THEN add_edge(g, Head(es)[1], Head(es)[2]) ELSE g)

FsGraph(full) == CopyEdges(Edges(full), CopyNodes(full, full.nodes, EmptyGraph))

\* as MapAppend, but an existing entry's list is replaced
MapAppend_replace(m, key, tag, node) ==
  IF key \in DOMAIN m
  THEN [m EXCEPT ![key].nodes = <<node>>]
  ELSE (key :> [type |-> tag, nodes |-> <<node>>]) @@ m

\* lines 194-196 and 202-204: create the entry if the key is new, then append
MapAppend(m, key, tag, node) ==
  IF key \in DOMAIN m
  THEN [m EXCEPT ![key].nodes = Append(@, node)]
  ELSE (key :> [type |-> tag, nodes |-> <<node>>]) @@ m

\* lines 191-196
RECURSIVE IndexEdges(_, _, _)
IndexEdges(full, es, m) ==
  IF es = <<>> THEN m
  ELSE IndexEdges(full, Tail(es),
                  IF full.type[Head(es)[2]] = "dependency"
                  THEN MapAppend(m, Head(es)[2], "dependency", Head(es)[1])
                  ELSE m)

\* lines 198-204; the key is os.path.basename(node_id)
RECURSIVE IndexFiles(_, _, _)
IndexFiles(full, ns, m) ==
  IF ns = <<>> THEN m
  ELSE IndexFiles(full, Tail(ns),
                  IF full.type[Head(ns)] \in {"python_file", "other_file"}
                  THEN MapAppend(m, <<Last(Head(ns))>>, "file", Head(ns))
                  ELSE m)

SearchMap(full) == IndexFiles(full, full.nodes, IndexEdges(full, Edges(full), <<>>))

\* lines 182-214: the rest of upload_project once the build has returned
UploadRespond ==
  /\ pc = "returned"
  /\ caller = "upload"
  /\ pc' = "responded"
  /\ fs_graph' = IF outcome = "graph" THEN FsGraph(G) ELSE EmptyGraph
  /\ search_map' = IF outcome = "graph" THEN SearchMap(G) ELSE <<>>
  /\ UNCHANGED <<fs, scanRev, caller, root, G, todo, outcome, effRoot, flatOut, jsonOut>>

(* ------------------------------ reports -------------------------------- *)
\* lines 84 and 113
ReportItems(current_path) ==
  sorted({n \in Range(listdir(current_path)) : ~StartsWithDot(n)})

\* lines 87-88 and 117-118: py_files + dirs
ReportOrder(current_path) ==
  LET items == ReportItems(current_path)
  IN SelectSeq(items, EndsWithPy)
     \o SelectSeq(items, LAMBDA d : isdir(current_path \o <<d>>))

\* lines 97-103
RECURSIVE FlatImports(_, _, _, _)
FlatImports(imports, item_prefix, level, import_counter) ==
  IF imports = <<>> THEN <<>>
  ELSE <<[level |-> level + 1, ordinal |-> Append(item_prefix, import_counter),
          text |-> Head(imports)]>>
       \o FlatImports(Tail(imports), item_prefix, level, import_counter + 1)

RECURSIVE generate_numbered_report(_, _, _)
RECURSIVE FlatLoop(_, _, _, _, _)

\* lines 90-106
FlatLoop(current_path, prefix, level, todoItems, counter) ==
  IF todoItems = <<>> THEN <<>>
  ELSE LET item == Head(todoItems)
           item_prefix == Append(prefix, counter)
           full_path == current_path \o <<item>>
       IN <<[level |-> level, ordinal |-> item_prefix, text |-> item]>>
          \o (IF EndsWithPy(item)
              THEN FlatImports(get_imports_for_file(full_path).imports,
                               item_prefix, level, 1)
              ELSE <<>>)
          \o (IF isdir(full_path)
              THEN generate_numbered_report(full_path, item_prefix, level + 1)
              ELSE <<>>)
          \o FlatLoop(current_path, prefix, level, Tail(todoItems), counter + 1)

generate_numbered_report(current_path, prefix, level) ==
  IF ~Exists(current_path) THEN <<>>
  ELSE FlatLoop(current_path, prefix, level, ReportOrder(current_path), 1)

\* report_dict[key] = value on an insertion-ordered dict
DictSet(d, key, value) ==
  IF \E i \in 1..Len(d) : d[i].key = key
  THEN [i \in 1..Len(d) |-> IF d[i].key = key THEN [key |-> key, value |-> value] ELSE d[i]]
  ELSE Append(d, [key |-> key, value |-> value])

Absent == [present |-> FALSE, val |-> <<>>]
Present(d) == [present |-> TRUE, val |-> d]

\* as JsonImports, but import_counter is never incremented
RECURSIVE JsonImports_stuck(_, _, _, _)
JsonImports_stuck(imports, item_prefix, import_counter, import_dict) ==
  IF imports = <<>> THEN import_dict
  ELSE JsonImports_stuck(Tail(imports), item_prefix, import_counter,
                         DictSet(import_dict, Append(item_prefix, import_counter),
                                 [name |-> Head(imports), type |-> "import"]))

\* lines 130-136
RECURSIVE JsonImports(_, _, _, _)
JsonImports(imports, item_prefix, import_counter, import_dict) ==
  IF imports = <<>> THEN import_dict
  ELSE JsonImports(Tail(imports), item_prefix, import_counter + 1,
                   DictSet(import_dict, Append(item_prefix, import_counter),
                           [name |-> Head(imports), type |-> "import"]))

RECURSIVE generate_json_report_recursive(_, _, _)
RECURSIVE JsonLoop(_, _, _, _, _, _)

\* lines 121-144
JsonLoop(current_path, prefix, level, todoItems, counter, report_dict) ==
  IF todoItems = <<>> THEN report_dict
  ELSE LET item == Head(todoItems)
           item_prefix == Append(prefix, counter)
           full_path == current_path \o <<item>>
           imports == IF EndsWithPy(item)
                      THEN get_imports_for_file(full_path).imports ELSE <<>>
           entry == [name |-> item,
                     imports |-> IF imports # <<>>
                                 THEN Present(JsonImports(imports, item_prefix, 1, <<>>))
                                 ELSE Absent,
                     files |-> IF isdir(full_path)
                               THEN Present(generate_json_report_recursive(
                                              full_path, item_prefix, level + 1))
                               ELSE Absent]
       IN JsonLoop(current_path, prefix, level, Tail(todoItems), counter + 1,
                   DictSet(report_dict, item_prefix, entry))

generate_json_report_recursive(current_path, prefix, level) ==
  IF ~Exists(current_path) THEN <<>>
  ELSE JsonLoop(current_path, prefix, level, ReportOrder(current_path), 1, <<>>)

\* get_serialization_report, lines 237-244
Serialize ==
  /\ pc = "idle"
  /\ flatOut.status = 0
  /\ flatOut' = IF ~Exists(<<>>) THEN [status |-> 404, body |-> <<>>]
                ELSE [status |-> 200,
                      body |-> generate_numbered_report(_get_effective_root(<<>>), <<>>, 0)]
  /\ UNCHANGED <<fs, scanRev, pc, caller, root, G, todo, outcome, effRoot,
                 search_map, fs_graph, jsonOut>>

\* get_json_report, lines 247-256
JsonReport ==
  /\ pc = "idle"
  /\ jsonOut.status = 0
  /\ jsonOut' = IF ~Exists(<<>>) THEN [status |-> 404, body |-> <<>>]
                ELSE [status |-> 200,
                      body |-> generate_json_report_recursive(
                                 _get_effective_root(<<>>), <<>>, 0)]
  /\ UNCHANGED <<fs, scanRev, pc, caller, root, G, todo, outcome, effRoot,
                 search_map, fs_graph, flatOut>>

(* --------------------------- specifications ---------------------------- *)
Next ==
  \/ CallBuild
  \/ UploadStart
  \/ Pass1AddNode
  \/ Pass1Done
  \/ Pass2AddEdge
  \/ Pass2AddDependency
  \/ BuildReturn
  \/ UploadRespond

Spec == Init /\ [][Next]_vars

NextReport == Serialize \/ JsonReport

SpecReport == Init /\ [][NextReport]_vars

(* ------------------------ notions used by the claims ------------------- *)
Built == pc \in {"returned", "responded"} /\ outcome = "graph"

RootId == <<basename(root)>>

\* the files and folders below root that a walk pruning KeepDir reaches
Reached(p) ==
  /\ p \in fs.entries
  /\ Len(p) > Len(root)
  /\ SubSeq(p, 1, Len(root)) = root
  /\ isdir(root)
  /\ \A i \in (Len(root) + 1)..(Len(p) - 1) : KeepDir(p[i])
  /\ IsDirEntry(p) => KeepDir(Last(p))

IdOf(p) == RootId \o SubSeq(p, Len(root) + 1, Len(p))

ReachedPy == {p \in fs.entries : Reached(p) /\ ~IsDirEntry(p) /\ EndsWithPy(Last(p))}

\* the number of edges u -> n
RECURSIVE InDegreeFrom(_, _, _)
InDegreeFrom(g, us, n) ==
  IF us = <<>> THEN 0
  ELSE Cardinality({j \in 1..Len(g.adj[Head(us)]) : g.adj[Head(us)][j] = n})
       + InDegreeFrom(g, Tail(us), n)

InDegree(g, n) == InDegreeFrom(g, g.nodes, n)

Preds(g, n) == {u \in Range(g.nodes) : n \in Range(g.adj[u])}

Count(s, x) == Cardinality({i \in 1..Len(s) : s[i] = x})

Succs(g, S) == UNION {Range(g.adj[n]) : n \in S}

RECURSIVE ReachN(_, _, _)
ReachN(g, S, k) == IF k = 0 THEN S ELSE ReachN(g, S \cup Succs(g, S), k - 1)

HasCycle(g) ==
  \E n \in Range(g.nodes) : n \in ReachN(g, Succs(g, {n}), Len(g.nodes))

(* -------------------------------- C1 ----------------------------------- *)
\* C1: a build whose root directory does not exist never returns a graph
\* value; it ends in an error outcome.
C1_MissingRootNoGraph ==
  (pc = "returned" /\ caller = "direct" /\ ~Exists(root)) => outcome # "graph"

(* -------------------------------- C2 ----------------------------------- *)
\* C2: no step of the build changes the type of a node that is already in
\* the graph.
C2_TypeFixedAtFirstInsertion ==
  [][\A n \in Range(G.nodes) : has_node(G', n) => G'.type[n] = G.type[n]]_vars

(* -------------------------------- C3 ----------------------------------- *)
\* C3: no node identifier has, below the root segment, a segment that is a
\* hidden entry or a noise directory.
C3_NoHiddenOrNoiseSegment ==
  \A n \in Range(G.nodes) :
    \A i \in 2..Len(n) : ~StartsWithDot(n[i]) /\ n[i] \notin {".git", "__pycache__"}

(* -------------------------------- C4 ----------------------------------- *)
\* C4: in a returned graph every node typed dependency has no outgoing
\* edge, and the graph has no directed cycle.
C4_DependencyIsSink ==
  Built =>
    /\ \A n \in Range(G.nodes) : G.type[n] = "dependency" => G.adj[n] = <<>>
    /\ ~HasCycle(G)

(* -------------------------------- C5 ----------------------------------- *)
\* C5: in a returned graph the non-root nodes that are not bare import
\* names are exactly the reached folders and files, and each has exactly
\* one incoming edge, which comes from the node of its parent directory.
C5_ContainmentTree ==
  Built =>
    /\ {n \in Range(G.nodes) : Len(n) > 1} = {IdOf(p) : p \in {q \in fs.entries : Reached(q)}}
    /\ \A n \in Range(G.nodes) :
         Len(n) > 1 =>
           /\ InDegree(G, n) = 1
           /\ Preds(G, n) = {Front(n)}
           /\ has_node(G, Front(n))

\* C5 witness: a returned graph with a file two levels below the root and
\* an import edge
C5_Witness ==
  /\ Built
  /\ \E n \in Range(G.nodes) : Len(n) = 3 /\ G.type[n] = "python_file" /\ G.adj[n] # <<>>

(* -------------------------------- C6 ----------------------------------- *)
\* C6: for every name X imported by some reached source file, the returned
\* graph has exactly one node X, typed dependency, whose incoming edges are
\* one edge from each source file importing X and no other.
ImportersOf(X) ==
  {IdOf(p) : p \in {q \in ReachedPy : X \in Range(get_imports_for_file(q).imports)}}

C6_DependencyFanIn ==
  Built =>
    \A X \in {"os", "proj", "path", "util"} :
      ImportersOf(X) # {} =>
        /\ Count(G.nodes, <<X>>) = 1
        /\ G.type[<<X>>] = "dependency"
        /\ Preds(G, <<X>>) = ImportersOf(X)
        /\ InDegree(G, <<X>>) = Cardinality(ImportersOf(X))

\* C6 witness: two source files import the same name, which is also the
\* name of the root folder
C6_Witness ==
  /\ Built
  /\ Cardinality(ImportersOf("proj")) = 2
  /\ RootId = <<"proj">>

(* -------------------------------- C7 ----------------------------------- *)
\* the lines a nested report stands for: each entry, then its imports, then
\* the entries of its files mapping, one level deeper
RECURSIVE LinesOf(_, _)
LinesOf(d, level) ==
  IF d = <<>> THEN <<>>
  ELSE LET e == Head(d)
       IN <<[level |-> level, ordinal |-> e.key, text |-> e.value.name]>>
          \o (IF e.value.imports.present
              THEN [i \in 1..Len(e.value.imports.val) |->
                      [level |-> level + 1,
                       ordinal |-> e.value.imports.val[i].key,
                       text |-> e.value.imports.val[i].value.name]]
              ELSE <<>>)
          \o (IF e.value.files.present THEN LinesOf(e.value.files.val, level + 1) ELSE <<>>)
          \o LinesOf(Tail(d), level)

\* C7: on the same session directory the flat report and the nested report
\* number identically: the lines of the flat text are, in order, the
\* entries, import sub-entries and files entries of the nested mapping,
\* each under the same ordinal and at the same depth.
C7_ReportsNumberAlike ==
  (flatOut.status = 200 /\ jsonOut.status = 200) =>
    LinesOf(jsonOut.body, 0) = flatOut.body

\* C7 witness: both reports exist and the flat one has an import line two
\* levels down, under a subdirectory numbered after a source file
C7_Witness ==
  /\ flatOut.status = 200 /\ jsonOut.status = 200
  /\ \E i \in 1..Len(flatOut.body) : flatOut.body[i].ordinal = <<2, 1, 2>>

(* -------------------------------- C8 ----------------------------------- *)
\* the one entry of p that vis admits, when it is single and a directory
HasSingleDir(p, vis(_)) ==
  LET v == {n \in Names : p \o <<n>> \in fs.entries /\ vis(n)}
  IN Cardinality(v) = 1 /\ \A n \in v : isdir(p \o <<n>>)

\* d is the first directory on the chain from the session directory that
\* does not have exactly one visible entry that is a directory
IsResolution(d, vis(_)) ==
  /\ isdir(d)
  /\ \A k \in 0..(Len(d) - 1) :
       /\ HasSingleDir(SubSeq(d, 1, k), vis)
       /\ vis(d[k + 1])
  /\ ~HasSingleDir(d, vis)

\* visible as the claim has it: not hidden and not a noise directory
ClaimVisible(n) == ~StartsWithDot(n) /\ n \notin {".git", "__pycache__"}

\* visible as amended: not hidden and not the archive folder __MACOSX
AmendedVisible(n) == ~StartsWithDot(n) /\ n # "__MACOSX"

\* C8 as stated: the effective root is the first directory on the chain
\* without exactly one visible directory entry, visible meaning neither
\* hidden nor version-control nor bytecode-cache folder.
C8_AsStated == (caller = "upload") => IsResolution(effRoot, ClaimVisible)

\* C8 amended: the same, visible meaning that the name neither starts with
\* '.' nor is __MACOSX.
C8_EffectiveRoot == (caller = "upload") => IsResolution(effRoot, AmendedVisible)

\* C8 witness: the session directory holds only the folder proj, and proj
\* has several entries
C8_Witness ==
  /\ caller = "upload"
  /\ effRoot = <<"proj">>
  /\ Cardinality({n \in Names : <<"proj", n>> \in fs.entries}) > 1

(* -------------------------------- C9 ----------------------------------- *)
DepIds == {n \in Range(G.nodes) : G.type[n] = "dependency"}
FileIds == {n \in Range(G.nodes) : G.type[n] \in {"python_file", "other_file"}}
BaseKeys == {<<Last(n)>> : n \in FileIds}
Namesakes(k) == {n \in FileIds : <<Last(n)>> = k}

\* C9 as stated: the keys are the dependency identifiers and the file base
\* names; every dependency entry is tagged dependency and lists its
\* importers once each; every base-name entry is tagged file and lists the
\* files of that name; a shared key holds both lists.
C9_AsStated ==
  pc = "responded" =>
    /\ DOMAIN search_map = DepIds \cup BaseKeys
    /\ \A k \in DepIds :
         /\ search_map[k].type = "dependency"
         /\ \A u \in Preds(G, k) : Count(search_map[k].nodes, u) = 1
    /\ \A k \in BaseKeys :
         /\ search_map[k].type = "file"
         /\ \A n \in Namesakes(k) : Count(search_map[k].nodes, n) = 1
    /\ \A k \in DOMAIN search_map :
         Range(search_map[k].nodes) =
           (IF k \in DepIds THEN Preds(G, k) ELSE {}) \cup Namesakes(k)

\* C9 amended: as stated, except that a base-name entry is tagged file only
\* when the name is not also a dependency identifier; the merged entry of a
\* shared key is tagged dependency.
C9_SearchIndex ==
  pc = "responded" =>
    /\ DOMAIN search_map = DepIds \cup BaseKeys
    /\ \A k \in DOMAIN search_map :
         /\ search_map[k].type = (IF k \in DepIds THEN "dependency" ELSE "file")
         /\ Range(search_map[k].nodes) =
              (IF k \in DepIds THEN Preds(G, k) ELSE {}) \cup Namesakes(k)
         /\ \A n \in Range(search_map[k].nodes) : Count(search_map[k].nodes, n) = 1

\* C9 witness: a dependency imported by two files, and a key shared by a
\* dependency and a file
C9_Witness ==
  /\ pc = "responded"
  /\ <<"os">> \in DepIds \cap BaseKeys
  /\ Len(search_map[<<"os">>].nodes) = 3

(* -------------------------------- C10 ---------------------------------- *)
\* C10: a source file that cannot be parsed yields the empty import list
\* and no exception; the build returns a graph in which that file has its
\* containment edge and no outgoing edge, and every other reached source
\* file has an edge to each of its imports.
C10_GracefulDegradation ==
  pc = "returned" =>
    /\ outcome = "graph"
    /\ \A p \in ReachedPy :
         /\ has_node(G, IdOf(p))
         /\ Preds(G, IdOf(p)) = {Front(IdOf(p))}
         /\ IF fs.content[p] = BAD
            THEN /\ get_imports_for_file(p) = [raised |-> FALSE, imports |-> <<>>]
                 /\ G.adj[IdOf(p)] = <<>>
            ELSE /\ Range(G.adj[IdOf(p)]) =
                      {<<Head(m)>> : m \in UNION {
                         Range(fs.content[p][i].names) \cup
                           (IF fs.content[p][i].module # <<>>
                            THEN {fs.content[p][i].module} ELSE {}) :
                         i \in 1..Len(fs.content[p])}}
                 /\ G.adj[IdOf(p)] # <<>>

\* C10 witness: a returned build that met an unparseable file and, in the
\* same tree, a source file with two import edges
C10_Witness ==
  /\ pc = "returned"
  /\ \E p \in ReachedPy : fs.content[p] = BAD
  /\ \E p \in ReachedPy : fs.content[p] # BAD /\ Len(G.adj[IdOf(p)]) = 2

====
